---- MODULE Spec2Model ----
(***************************************************************************)
(* Model of the Prometheus metric catalog of the kinesis producer          *)
(* (metrics.go): the descriptors built by getMetrics, the collector        *)
(* factory newMetric, the registration loop with its logger call, and the  *)
(* dispatch switch that fills the prometheusMetrics struct.                *)
(*                                                                         *)
(* Bucket boundaries are float64 in the source.  They are written here in  *)
(* hundredths (0.01 -> 1, 2.5 -> 250, 60000 -> 6000000) so that every      *)
(* boundary of both bucket sets is an integer; the code only copies and    *)
(* measures these sequences, it never does arithmetic on them.             *)
(*                                                                         *)
(* Pointers: a *metric is identified by the local variable that holds it   *)
(* (field addr), a prometheus.Collector by the pair (run, loop index) of   *)
(* the newMetric call that allocated it.                                   *)
(***************************************************************************)
EXTENDS Integers, Sequences, FiniteSets, TLC

(* ---------------------------------------------------------------- bounds *)
MaxRuns == 2

MaxBucketLen == 2

MaxPreRegistered == 2

MaxObs == 1

(* ------------------------------------------------------------- constants *)
systemName == "go_kinesis_producer"

TimeMillisecondBucketsLit ==
  <<1, 10, 25, 50, 100, 250, 500, 1000, 10000, 100000, 1000000, 6000000>>

SizeByteBucketsLit ==
  <<100, 1600, 6400, 25600, 51200, 102400, 1638400, 6553600, 26214400,
    104857600, 419430400>>

CounterVecT == "*prometheus.CounterVec"

HistogramVecT == "*prometheus.HistogramVec"

(* The fields of struct prometheusMetrics with their declared types. *)
prometheusMetrics ==
  [ userRecordsPutCnt                     |-> CounterVecT,
    userRecordsDataPutSz                  |-> HistogramVecT,
    kinesisRecordsPutCnt                  |-> CounterVecT,
    kinesisRecordsDataPutSz               |-> HistogramVecT,
    errorsByCodeCnt                       |-> CounterVecT,
    allErrorsCnt                          |-> CounterVecT,
    retriesPerRecordSum                   |-> HistogramVecT,
    bufferingTimeDur                      |-> HistogramVecT,
    requestTimeDur                        |-> HistogramVecT,
    userRecordsPerKinesisRecordSum        |-> HistogramVecT,
    kinesisRecordsPerPutRecordsRequestSum |-> HistogramVecT ]

Fields == DOMAIN prometheusMetrics

(* ------------------------------------------------------------- pointers *)
Ptr(r, k) == [run |-> r, idx |-> k]

NilPtr == Ptr(-1, 0)

(* A collector registered by somebody else before the first run. *)
ForeignPtr(k) == Ptr(0, k)

NilCollector == [type |-> "nil"]

NoError == "nil"

(* ------------------------------------------------------------ variables *)
VARIABLES
  timeMillisecondBuckets,  \* package variable
  sizeByteBuckets,         \* package variable
  registry,                \* prometheus default registry: fqName -> collector pointer
  heap,                    \* collector pointer -> collector object
  obs,                     \* collector pointer -> number of observations recorded
  run,                     \* number of getMetrics calls started so far
  pc,                      \* "idle" | "loop" | "panic"
  i,                       \* index into metricList of the running call
  metricList,              \* run -> the descriptors the call built
  p,                       \* the prometheusMetrics value under construction
  handles,                 \* run -> the value the call returned
  logged,                  \* run -> logger.Error calls of the call, in order
  regErr,                  \* run -> what prometheus.Register returned, per iteration
  preRegistered,           \* the catalog names taken before the first call
  recorded,                \* the number of observations made through returned values
  fArg,                    \* factory harness: the descriptor handed to newMetric
  fRes,                    \* factory harness: what newMetric returned
  fPc                      \* factory harness: "off" | "ready" | "returned" | "panic"

vars == <<timeMillisecondBuckets, sizeByteBuckets, registry, heap, obs, run, pc, i,
          metricList, p, handles, logged, regErr, preRegistered, recorded,
          fArg, fRes, fPc>>

pkgVars == <<timeMillisecondBuckets, sizeByteBuckets, preRegistered>>

factoryVars == <<fArg, fRes, fPc>>

(* ----------------------------------------------------- getMetrics: catalog *)
Metric(addr, id, name, description, args, type, buckets) ==
  [ addr            |-> addr,
    MetricCollector |-> NilPtr,
    ID              |-> id,
    Name            |-> name,
    Description     |-> description,
    Type            |-> type,
    Args            |-> args,
    Buckets         |-> buckets ]

(* The descriptors, named after the local variables of getMetrics.  sz and  *)
(* tm are the values of sizeByteBuckets and timeMillisecondBuckets when the  *)
(* call runs.                                                               *)
userRecordsPutCnt ==
  Metric("userRecordsPutCnt", "userRecordsPutCnt", "user_records_put_total",
         "Count of how many logical user records were received by the KPL core for put operations.",
         <<"stream">>, "counter_vec", <<>>)

userRecordsDataPutSz(sz) ==
  Metric("userRecordsDataPutSz", "userRecordsDataPutSz", "user_records_data_put_bytes",
         "Bytes in the logical user records were received by the KPL core for put operations.",
         <<"stream">>, "histogram_vec", sz)

kinesisRecordsPutCnt ==
  Metric("kinesisRecordsPutCnt", "kinesisRecordsPutCnt", "kinesis_records_put_total",
         "Count of how many Kinesis Data Streams records were put successfully (each Kinesis Data Streams record can contain multiple user records).",
         <<"stream", "shard">>, "counter_vec", <<>>)

(* The descriptor with the name of userRecordsDataPutSz pasted in. *)
kinesisRecordsDataPutSzDup(sz) ==
  Metric("kinesisRecordsDataPutSz", "kinesisRecordsDataPutSz", "user_records_data_put_bytes",
         "Bytes in the Kinesis Data Streams records.",
         <<"stream">>, "histogram_vec", sz)

kinesisRecordsDataPutSz(sz) ==
  Metric("kinesisRecordsDataPutSz", "kinesisRecordsDataPutSz", "kinesis_records_data_put_bytes",
         "Bytes in the Kinesis Data Streams records.",
         <<"stream">>, "histogram_vec", sz)

errorsByCodeCnt ==
  Metric("errorsByCodeCnt", "errorsByCodeCnt", "errors_by_code_total",
         "Count of each type of error code.",
         <<"stream", "code">>, "counter_vec", <<>>)

allErrorsCnt ==
  Metric("allErrorsCnt", "allErrorsCnt", "errors_total",
         "This is triggered by the same errors as Errors by Code, but does not distinguish between types.",
         <<"stream">>, "counter_vec", <<>>)

retriesPerRecordSum ==
  Metric("retriesPerRecordSum", "retriesPerRecordSum", "retries_per_record",
         "Number of retries performed per kinesis record. Zero is emitted for records that succeed in one try.",
         <<"stream">>, "histogram_vec", <<>>)

bufferingTimeDur(tm) ==
  Metric("bufferingTimeDur", "bufferingTimeDur", "buffering_time_milliseconds",
         "The time between a user record arriving at the KPL and leaving for the backend.",
         <<"stream">>, "histogram_vec", tm)

requestTimeDur(tm) ==
  Metric("requestTimeDur", "requestTimeDur", "request_time_milliseconds",
         "The time it takes to perform PutRecordsRequests.",
         <<"stream">>, "histogram_vec", tm)

userRecordsPerKinesisRecordSum(sz) ==
  Metric("userRecordsPerKinesisRecordSum", "userRecordsPerKinesisRecordSum",
         "user_records_per_kinesis_record",
         "The number of logical user records aggregated into a single Kinesis Data Streams record.",
         <<"stream">>, "histogram_vec", sz)

kinesisRecordsPerPutRecordsRequestSum(sz) ==
  Metric("kinesisRecordsPerPutRecordsRequestSum", "kinesisRecordsPerPutRecordsRequestSum",
         "kinesis_records_per_put_records_request",
         "The number of Kinesis Data Streams records aggregated into a single PutRecordsRequest.",
         <<"stream">>, "histogram_vec", sz)

(* metricList, lines 123 to 135. *)
MetricListOf(sz, tm) ==
  << userRecordsPutCnt,
     userRecordsDataPutSz(sz),
     kinesisRecordsPutCnt,
     kinesisRecordsDataPutSz(sz),
     errorsByCodeCnt,
     allErrorsCnt,
     retriesPerRecordSum,
     bufferingTimeDur(tm),
     requestTimeDur(tm),
     userRecordsPerKinesisRecordSum(sz),
     kinesisRecordsPerPutRecordsRequestSum(sz) >>

NumMetrics == Len(MetricListOf(SizeByteBucketsLit, TimeMillisecondBucketsLit))

(* -------------------------------------------------------------- newMetric *)
(* newMetric with the length test off by one: a single boundary is dropped. *)
newMetricLongOnly(m, subsystem) ==
  CASE m.Type = "counter_vec" ->
         [ type       |-> CounterVecT,
           opts       |-> [Subsystem |-> subsystem, Name |-> m.Name, Help |-> m.Description],
           labelNames |-> m.Args ]
    [] m.Type = "histogram_vec" ->
         [ type       |-> HistogramVecT,
           opts       |-> [ Subsystem |-> subsystem, Name |-> m.Name, Help |-> m.Description,
                            Buckets   |-> IF Len(m.Buckets) > 1
                                            THEN <<>> \o m.Buckets
                                            ELSE <<>> ],
           labelNames |-> m.Args ]
    [] OTHER -> NilCollector

newMetric(m, subsystem) ==
  CASE m.Type = "counter_vec" ->
         [ type       |-> CounterVecT,
           opts       |-> [Subsystem |-> subsystem, Name |-> m.Name, Help |-> m.Description],
           labelNames |-> m.Args ]
    [] m.Type = "histogram_vec" ->
         [ type       |-> HistogramVecT,
           opts       |-> [ Subsystem |-> subsystem, Name |-> m.Name, Help |-> m.Description,
                            Buckets   |-> IF Len(m.Buckets) > 0
                                            THEN <<>> \o m.Buckets
                                            ELSE <<>> ],
           labelNames |-> m.Args ]
    [] OTHER -> NilCollector

(* ----------------------------------------------------- registry (library) *)
(* The fully qualified name a collector is registered under. *)
FqName(c) == <<c.opts.Subsystem, c.opts.Name>>

(* prometheus.Register: binds the name when it is free, returns an error   *)
(* and leaves the registry alone when it is taken.                         *)
Register(reg, ptr, c) ==
  IF FqName(c) \in DOMAIN reg
    THEN [err |-> "AlreadyRegisteredError", reg |-> reg]
    ELSE [err |-> NoError, reg |-> reg @@ (FqName(c) :> ptr)]

(* ------------------------------------------- getMetrics: lines 141 to 143 *)
ErrorMessage(name) == <<name, " could not be registered in Prometheus">>

(* Lines 141 to 143 with the test inverted: logs when Register succeeded. *)
RegisterAndLogInverted(reg, log, metricDef, ptr, c) ==
  LET r == Register(reg, ptr, c)
  IN  [ reg |-> r.reg,
        err |-> r.err,
        log |-> IF r.err = NoError
                  THEN Append(log, [msg |-> ErrorMessage(metricDef.Name), err |-> r.err])
                  ELSE log ]

(* Lines 141 to 143 logging whatever Register returned. *)
RegisterAndLogAlways(reg, log, metricDef, ptr, c) ==
  LET r == Register(reg, ptr, c)
  IN  [ reg |-> r.reg,
        err |-> r.err,
        log |-> Append(log, [msg |-> ErrorMessage(metricDef.Name), err |-> r.err]) ]

(* Lines 141 to 143 recovering from a conflict by unregistering the holder *)
(* of the name and registering the new collector in its place.             *)
RegisterAndLogReplace(reg, log, metricDef, ptr, c) ==
  LET r == Register(reg, ptr, c)
  IN  [ reg |-> IF r.err # NoError THEN [reg EXCEPT ![FqName(c)] = ptr] ELSE r.reg,
        err |-> r.err,
        log |-> IF r.err # NoError
                  THEN Append(log, [msg |-> ErrorMessage(metricDef.Name), err |-> r.err])
                  ELSE log ]

RegisterAndLog(reg, log, metricDef, ptr, c) ==
  LET r == Register(reg, ptr, c)
  IN  [ reg |-> r.reg,
        err |-> r.err,
        log |-> IF r.err # NoError
                  THEN Append(log, [msg |-> ErrorMessage(metricDef.Name), err |-> r.err])
                  ELSE log ]

(* --------------------------------------------- getMetrics: dispatch switch *)
(* The switch with the fields of two cases exchanged. *)
SwitchCasesSwapped ==
  << [case |-> "userRecordsPutCnt",       field |-> "userRecordsPutCnt",       assert |-> CounterVecT],
     [case |-> "userRecordsDataPutSz",    field |-> "userRecordsDataPutSz",    assert |-> HistogramVecT],
     [case |-> "kinesisRecordsPutCnt",    field |-> "kinesisRecordsPutCnt",    assert |-> CounterVecT],
     [case |-> "kinesisRecordsDataPutSz", field |-> "kinesisRecordsDataPutSz", assert |-> HistogramVecT],
     [case |-> "errorsByCodeCnt",         field |-> "errorsByCodeCnt",         assert |-> CounterVecT],
     [case |-> "allErrorsCnt",            field |-> "allErrorsCnt",            assert |-> CounterVecT],
     [case |-> "retriesPerRecordSum",     field |-> "retriesPerRecordSum",     assert |-> HistogramVecT],
     [case |-> "bufferingTimeDur",        field |-> "requestTimeDur",          assert |-> HistogramVecT],
     [case |-> "requestTimeDur",          field |-> "bufferingTimeDur",        assert |-> HistogramVecT],
     [case |-> "userRecordsPerKinesisRecordSum",
      field |-> "userRecordsPerKinesisRecordSum", assert |-> HistogramVecT],
     [case |-> "kinesisRecordsPerPutRecordsRequestSum",
      field |-> "kinesisRecordsPerPutRecordsRequestSum", assert |-> HistogramVecT] >>

(* One entry per case: the pointer compared against, the field assigned and *)
(* the type asserted.                                                       *)
SwitchCases ==
  << [case |-> "userRecordsPutCnt",       field |-> "userRecordsPutCnt",       assert |-> CounterVecT],
     [case |-> "userRecordsDataPutSz",    field |-> "userRecordsDataPutSz",    assert |-> HistogramVecT],
     [case |-> "kinesisRecordsPutCnt",    field |-> "kinesisRecordsPutCnt",    assert |-> CounterVecT],
     [case |-> "kinesisRecordsDataPutSz", field |-> "kinesisRecordsDataPutSz", assert |-> HistogramVecT],
     [case |-> "errorsByCodeCnt",         field |-> "errorsByCodeCnt",         assert |-> CounterVecT],
     [case |-> "allErrorsCnt",            field |-> "allErrorsCnt",            assert |-> CounterVecT],
     [case |-> "retriesPerRecordSum",     field |-> "retriesPerRecordSum",     assert |-> HistogramVecT],
     [case |-> "bufferingTimeDur",        field |-> "bufferingTimeDur",        assert |-> HistogramVecT],
     [case |-> "requestTimeDur",          field |-> "requestTimeDur",          assert |-> HistogramVecT],
     [case |-> "userRecordsPerKinesisRecordSum",
      field |-> "userRecordsPerKinesisRecordSum", assert |-> HistogramVecT],
     [case |-> "kinesisRecordsPerPutRecordsRequestSum",
      field |-> "kinesisRecordsPerPutRecordsRequestSum", assert |-> HistogramVecT] >>

(* The first case equal to the descriptor pointer, 0 when none matches. *)
MatchingCase(metricDef) ==
  LET hits == {k \in 1..Len(SwitchCases) : SwitchCases[k].case = metricDef.addr}
  IN  IF hits = {} THEN 0 ELSE CHOOSE k \in hits : \A j \in hits : k <= j

(* The switch skipped (continue) when the name was taken. *)
AssignFieldSkipConflict(handle, metricDef, ptr, c) ==
  LET k == MatchingCase(metricDef)
  IN  IF k = 0 \/ FqName(c) \in DOMAIN registry
        THEN [p |-> handle, panic |-> FALSE]
        ELSE IF c.type # SwitchCases[k].assert
               THEN [p |-> handle, panic |-> TRUE]
               ELSE [p |-> [handle EXCEPT ![SwitchCases[k].field] = ptr], panic |-> FALSE]

(* The switch assigning the collector that holds the name when it was taken *)
(* (AlreadyRegisteredError.ExistingCollector).                              *)
AssignFieldExisting(handle, metricDef, ptr, c) ==
  LET k == MatchingCase(metricDef)
      q == IF FqName(c) \in DOMAIN registry THEN registry[FqName(c)] ELSE ptr
  IN  IF k = 0
        THEN [p |-> handle, panic |-> FALSE]
        ELSE IF c.type # SwitchCases[k].assert
               THEN [p |-> handle, panic |-> TRUE]
               ELSE [p |-> [handle EXCEPT ![SwitchCases[k].field] = q], panic |-> FALSE]

(* The switch on metricDef: the struct after it and whether the type        *)
(* assertion panicked.                                                      *)
AssignField(handle, metricDef, ptr, c) ==
  LET k == MatchingCase(metricDef)
  IN  IF k = 0
        THEN [p |-> handle, panic |-> FALSE]
        ELSE IF c.type # SwitchCases[k].assert
               THEN [p |-> handle, panic |-> TRUE]
               ELSE [p |-> [handle EXCEPT ![SwitchCases[k].field] = ptr], panic |-> FALSE]

(* Line 170 also releasing the descriptor's bucket slice. *)
SetMetricCollectorDropBuckets(metricDef, ptr) ==
  [metricDef EXCEPT !.MetricCollector = ptr, !.Buckets = <<>>]

(* Line 170. *)
SetMetricCollector(metricDef, ptr) == [metricDef EXCEPT !.MetricCollector = ptr]

(* ------------------------------------------------------------------ Init *)
LitCatalog == MetricListOf(SizeByteBucketsLit, TimeMillisecondBucketsLit)

CatalogNames == { <<systemName, LitCatalog[k].Name>> : k \in 1..NumMetrics }

EmptyHandle == [f \in Fields |-> NilPtr]

NameIndex(n) == CHOOSE k \in 1..NumMetrics : <<systemName, LitCatalog[k].Name>> = n

InitFactoryOff ==
  /\ fArg = Metric("", "", "", "", <<>>, "", <<>>)
  /\ fRes = NilCollector
  /\ fPc = "off"

InitWith(pre) ==
  /\ timeMillisecondBuckets = TimeMillisecondBucketsLit
  /\ sizeByteBuckets = SizeByteBucketsLit
  /\ preRegistered = pre
  /\ registry = [n \in pre |-> ForeignPtr(NameIndex(n))]
  /\ heap = << >>
  /\ obs = [n \in {ForeignPtr(NameIndex(m)) : m \in pre} |-> 0]
  /\ run = 0
  /\ pc = "idle"
  /\ i = 0
  /\ metricList = << >>
  /\ p = EmptyHandle
  /\ handles = << >>
  /\ logged = << >>
  /\ regErr = << >>
  /\ recorded = 0

(* Any subset of the catalog's names may already be taken. *)
Init ==
  /\ \E pre \in SUBSET CatalogNames : InitWith(pre)
  /\ InitFactoryOff

(* --------------------------------------------------------------- actions *)
(* getMetrics, lines 29 to 137: the descriptors, metricList and p. *)
GetMetricsStart ==
  /\ pc = "idle"
  /\ run < MaxRuns
  /\ run' = run + 1
  /\ metricList' = Append(metricList, MetricListOf(sizeByteBuckets, timeMillisecondBuckets))
  /\ p' = EmptyHandle
  /\ logged' = Append(logged, << >>)
  /\ regErr' = Append(regErr, << >>)
  /\ i' = 1
  /\ pc' = "loop"
  /\ UNCHANGED <<pkgVars, registry, heap, obs, handles, recorded, factoryVars>>

(* One iteration of the loop, lines 139 to 171. *)
LoopIteration ==
  /\ pc = "loop"
  /\ i <= Len(metricList[run])
  /\ LET metricDef == metricList[run][i]
         c         == newMetric(metricDef, systemName)
         ptr       == IF c = NilCollector THEN NilPtr ELSE Ptr(run, i)
     IN  IF c = NilCollector
           THEN \* Register calls a method of a nil interface value
                /\ pc' = "panic"
                /\ UNCHANGED <<registry, heap, obs, logged, regErr, p, metricList, i>>
           ELSE LET b == RegisterAndLog(registry, logged[run], metricDef, ptr, c)
                    a == AssignField(p, metricDef, ptr, c)
                IN  /\ heap' = heap @@ (ptr :> c)
                    /\ obs' = obs @@ (ptr :> 0)
                    /\ registry' = b.reg
                    /\ logged' = [logged EXCEPT ![run] = b.log]
                    /\ regErr' = [regErr EXCEPT ![run] = Append(@, b.err)]
                    /\ IF a.panic
                         THEN /\ pc' = "panic"
                              /\ UNCHANGED <<p, metricList, i>>
                         ELSE /\ p' = a.p
                              /\ metricList' = [metricList EXCEPT ![run][i] =
                                                  SetMetricCollector(metricDef, ptr)]
                              /\ i' = i + 1
                              /\ pc' = "loop"
  /\ UNCHANGED <<pkgVars, run, handles, recorded, factoryVars>>

(* Line 173. *)
GetMetricsReturn ==
  /\ pc = "loop"
  /\ i > Len(metricList[run])
  /\ handles' = Append(handles, p)
  /\ pc' = "idle"
  /\ UNCHANGED <<pkgVars, registry, heap, obs, run, i, metricList, p, logged, regErr,
                 recorded, factoryVars>>

Next ==
  \/ GetMetricsStart
  \/ LoopIteration
  \/ GetMetricsReturn

Spec == Init /\ [][Next]_vars

(* ------------------------------------------- recording through a handle *)
(* A caller of the producer records one observation through field f of the *)
(* value that call r returned (Inc or Observe on the collector it holds).  *)
Observe(r, f) ==
  /\ pc = "idle"
  /\ recorded < MaxObs
  /\ r \in 1..Len(handles)
  /\ handles[r][f] \in DOMAIN obs
  /\ obs' = [obs EXCEPT ![handles[r][f]] = @ + 1]
  /\ recorded' = recorded + 1
  /\ UNCHANGED <<pkgVars, registry, heap, run, pc, i, metricList, p, handles, logged,
                 regErr, factoryVars>>

(* What the registry's export shows for a name: the state of the collector *)
(* bound to it.                                                            *)
Exported(n) == obs[registry[n]]

(* Any subset of the names of the first MaxPreRegistered descriptors may be *)
(* taken.                                                                  *)
InitRecord ==
  /\ \E pre \in SUBSET {<<systemName, LitCatalog[k].Name>> : k \in 1..MaxPreRegistered} :
       InitWith(pre)
  /\ InitFactoryOff

NextRecord ==
  \/ GetMetricsStart
  \/ LoopIteration
  \/ GetMetricsReturn
  \/ \E r \in 1..MaxRuns, f \in Fields : Observe(r, f)

SpecRecord == InitRecord /\ [][NextRecord]_vars

(* ---------------------------------------------------- newMetric on its own *)
BucketValues == {5, 10, 20}

RECURSIVE SeqsUpTo(_, _)
SeqsUpTo(S, n) ==
  IF n = 0 THEN {<< >>}
  ELSE LET shorter == SeqsUpTo(S, n - 1)
       IN  shorter \cup {Append(q, x) : q \in shorter, x \in S}

FactoryTypes == {"counter_vec", "histogram_vec", "gauge_vec", ""}

FactoryArgs == {<< >>, <<"stream">>, <<"stream", "shard">>}

(* The descriptors of the catalog and descriptors of any kind and buckets. *)
FactoryInputs ==
  {LitCatalog[k] : k \in 1..NumMetrics}
  \cup {Metric("m", "m", "some_metric", "Some help.", a, t, b) :
          a \in FactoryArgs, t \in FactoryTypes, b \in SeqsUpTo(BucketValues, MaxBucketLen)}

InitFactory ==
  /\ InitWith({})
  /\ fArg \in FactoryInputs
  /\ fRes = NilCollector
  /\ fPc = "ready"

(* One call newMetric(m, systemName); the function has no panicking path. *)
FactoryBuild ==
  /\ fPc = "ready"
  /\ fRes' = newMetric(fArg, systemName)
  /\ fPc' = "returned"
  /\ UNCHANGED <<pkgVars, registry, heap, obs, run, pc, i, metricList, p, handles,
                 logged, regErr, recorded, fArg>>

NextFactory == FactoryBuild

SpecFactory == InitFactory /\ [][NextFactory]_vars

(* ------------------------------------------------------------ properties *)
Started == 1..Len(metricList)

Returned == 1..Len(handles)

Failed(r, k) == k <= Len(regErr[r]) /\ regErr[r][k] # NoError

Succeeded(r, k) == k <= Len(regErr[r]) /\ regErr[r][k] = NoError

NameOf(r, k) == <<systemName, metricList[r][k].Name>>

FullyPopulated(h) == \A f \in Fields : h[f] # NilPtr

(* The struct of call r: the returned value, or p while the call runs. *)
HandleOf(r) == IF r \in Returned THEN handles[r] ELSE p

(* The index of the descriptor of call r whose ID is f, 0 when none has it. *)
IndexOfID(r, f) ==
  LET hits == {k \in 1..Len(metricList[r]) : metricList[r][k].ID = f}
  IN  IF hits = {} THEN 0 ELSE CHOOSE k \in hits : TRUE

(* C1: whatever subset of the catalog's names was taken when a call started, *)
(* the call does not panic and the value it returns has all eleven fields    *)
(* non-nil, one for the ID of every descriptor.                              *)
C1_HandleFullyPopulated ==
  /\ pc # "panic"
  /\ \A r \in Returned :
       /\ Cardinality(Fields) = 11
       /\ FullyPopulated(handles[r])
       /\ \A k \in 1..Len(metricList[r]) :
            /\ metricList[r][k].ID \in Fields
            /\ handles[r][metricList[r][k].ID] # NilPtr

C1_Witness ==
  \E r \in Returned : \E k1, k2 \in 1..NumMetrics :
    /\ preRegistered # {}
    /\ Failed(r, k1)
    /\ Succeeded(r, k2)

(* C2: a second (or later) call against the same registry does not panic,   *)
(* calls logger.Error exactly once per metric, in catalog order, eleven     *)
(* calls in all, and returns a fully populated value.                       *)
C2_SecondRunLogsEveryMetric ==
  /\ pc # "panic"
  /\ \A r \in Returned :
       r >= 2 =>
         /\ Len(logged[r]) = 11
         /\ \A k \in 1..Len(metricList[r]) :
              /\ k <= Len(logged[r])
              /\ logged[r][k].msg = ErrorMessage(metricList[r][k].Name)
         /\ FullyPopulated(handles[r])

C2_Witness == Len(handles) >= 2 /\ Len(logged[2]) > 0

(* C3: within a call logger.Error is called exactly once for every metric   *)
(* whose Register returned an error and never for one whose Register        *)
(* succeeded; a failure does not end the loop: the loop index advances past *)
(* it and a returned call has built and tried to register all the metrics.  *)
C3_LogExactlyOnFailure ==
  /\ pc # "panic"
  /\ \A r \in Started :
       /\ \A k \in 1..Len(metricList[r]) :
            Cardinality({j \in 1..Len(logged[r]) :
                           logged[r][j].msg = ErrorMessage(metricList[r][k].Name)})
              = IF Failed(r, k) THEN 1 ELSE 0
       /\ Len(logged[r]) = Cardinality({k \in 1..Len(regErr[r]) : Failed(r, k)})
       /\ (r = run /\ pc = "loop") => Len(regErr[r]) = i - 1
       /\ r \in Returned =>
            /\ Len(regErr[r]) = Len(metricList[r])
            /\ \A k \in 1..Len(metricList[r]) : Ptr(r, k) \in DOMAIN heap

C3_Witness ==
  \E r \in Returned : \E k1, k2 \in 1..NumMetrics :
    /\ k1 < k2
    /\ Failed(r, k1)
    /\ Succeeded(r, k2)
    /\ Len(logged[r]) >= 1

(* C6: no step removes a binding of the registry or changes the collector   *)
(* bound to a name; a name bound by a call is bound to the collector of the *)
(* first call whose Register succeeded for it.                              *)
C6_RegistryOnlyGrows ==
  [][ /\ \A n \in DOMAIN registry :
           n \in DOMAIN registry' /\ registry'[n] = registry[n]
      /\ \A n \in DOMAIN registry' :
           LET q == registry'[n]
           IN  IF q.run = 0
                 THEN n \in preRegistered
                 ELSE /\ q.run \in 1..Len(regErr')
                      /\ q.idx \in 1..Len(regErr'[q.run])
                      /\ regErr'[q.run][q.idx] = NoError
                      /\ FqName(heap'[q]) = n
                      /\ \A r \in 1..(q.run - 1) : regErr'[r][q.idx] # NoError
    ]_vars

C6_Witness ==
  /\ run = 2
  /\ \E k \in 1..NumMetrics :
       /\ Failed(2, k)
       /\ registry[NameOf(2, k)] = Ptr(1, k)

(* C7: when Register failed for a metric, the field of the returned value   *)
(* holds the collector built in that iteration, which is not the collector  *)
(* bound to the name; an observation recorded through the field is counted  *)
(* by that collector and leaves what the registry exports for the name      *)
(* unchanged.                                                               *)
C7_ConflictFieldIsFresh ==
  [][ \A r \in 1..Len(handles') : \A f \in Fields :
        LET k == IndexOfID(r, f)
        IN  (k # 0 /\ Failed(r, k)) =>
              /\ handles'[r][f] = Ptr(r, k)
              /\ registry'[NameOf(r, k)] # Ptr(r, k)
              /\ (r <= Len(handles) /\ obs'[handles[r][f]] # obs[handles[r][f]]) =>
                   /\ obs'[Ptr(r, k)] = obs[Ptr(r, k)] + 1
                   /\ Exported(NameOf(r, k))' = Exported(NameOf(r, k))
    ]_vars

C7_Witness ==
  \E r \in Returned : \E f \in Fields :
    LET k == IndexOfID(r, f)
    IN  /\ k # 0
        /\ Failed(r, k)
        /\ recorded >= 1
        /\ obs[handles[r][f]] >= 1

(* C8: every call builds the same eleven descriptors in the same order:     *)
(* any two calls agree entry by entry on ID, Name, Type, Args and Buckets,  *)
(* also after line 170 has written to the descriptors of the earlier call,  *)
(* and the bucket variables they are built from keep their values.          *)
C8_CatalogIdentical ==
  /\ sizeByteBuckets = SizeByteBucketsLit
  /\ timeMillisecondBuckets = TimeMillisecondBucketsLit
  /\ \A r1 \in Started :
       /\ Len(metricList[r1]) = 11
       /\ \A r2 \in Started : \A k \in 1..Len(metricList[r1]) :
            /\ k <= Len(metricList[r2])
            /\ metricList[r1][k].ID = metricList[r2][k].ID
            /\ metricList[r1][k].Name = metricList[r2][k].Name
            /\ metricList[r1][k].Type = metricList[r2][k].Type
            /\ metricList[r1][k].Args = metricList[r2][k].Args
            /\ metricList[r1][k].Buckets = metricList[r2][k].Buckets

C8_Witness ==
  /\ Len(metricList) >= 2
  /\ metricList[1][NumMetrics].MetricCollector # NilPtr
  /\ metricList[2][NumMetrics].MetricCollector # NilPtr

(* C9: after iteration k of a call the field named by the ID of descriptor  *)
(* k holds the collector built in that iteration from that descriptor, the  *)
(* field's declared type is the collector's type and matches the            *)
(* descriptor's Type, no type assertion panics, and the fields of           *)
(* descriptors not yet reached are still nil (no descriptor writes the      *)
(* field of another).                                                       *)
C9_DispatchMatchesID ==
  /\ pc # "panic"
  /\ \A r \in Started :
       LET done == 1..Len(regErr[r])
       IN  /\ \A k \in done :
                LET d == metricList[r][k]
                IN  /\ d.ID \in Fields
                    /\ HandleOf(r)[d.ID] = Ptr(r, k)
                    /\ heap[Ptr(r, k)].opts.Name = d.Name
                    /\ heap[Ptr(r, k)].labelNames = d.Args
                    /\ heap[Ptr(r, k)].type = prometheusMetrics[d.ID]
                    /\ (d.Type = "counter_vec") <=> (prometheusMetrics[d.ID] = CounterVecT)
                    /\ (d.Type = "histogram_vec") <=> (prometheusMetrics[d.ID] = HistogramVecT)
           /\ \A f \in Fields :
                (\A k \in done : metricList[r][k].ID # f) => HandleOf(r)[f] = NilPtr

C9_Witness ==
  /\ Len(handles) >= 1
  /\ handles[1]["requestTimeDur"] = Ptr(1, 9)
  /\ handles[1]["kinesisRecordsPerPutRecordsRequestSum"] = Ptr(1, 11)

(* C10: the IDs and the names of the descriptors of a call are pairwise     *)
(* distinct, so a first call against a registry holding none of the names   *)
(* binds every name to the collector of its own iteration and never calls   *)
(* logger.Error.                                                            *)
C10_FirstRunRegistersAll ==
  /\ \A r \in Started : \A k1, k2 \in 1..Len(metricList[r]) :
       k1 # k2 =>
         /\ metricList[r][k1].ID # metricList[r][k2].ID
         /\ metricList[r][k1].Name # metricList[r][k2].Name
  /\ (preRegistered = {} /\ run >= 1) =>
       /\ logged[1] = << >>
       /\ \A k \in 1..Len(regErr[1]) :
            /\ regErr[1][k] = NoError
            /\ registry[NameOf(1, k)] = Ptr(1, k)
       /\ 1 \in Returned => Cardinality(DOMAIN registry) = 11

C10_Witness ==
  /\ preRegistered = {}
  /\ Len(handles) = 1
  /\ Cardinality(DOMAIN registry) = 11

(* C5: for a histogram descriptor the Buckets handed to NewHistogramVec are *)
(* the descriptor's Buckets, in order, when it has any, and are left unset  *)
(* when it has none; the call leaves the descriptor and the two bucket      *)
(* variables as they were.                                                  *)
C5_BucketsVerbatim ==
  [][ (fPc = "ready" /\ fPc' # "ready" /\ fArg.Type = "histogram_vec") =>
        /\ fPc' = "returned"
        /\ fRes'.type = HistogramVecT
        /\ fRes'.opts.Buckets = fArg.Buckets
        /\ Len(fArg.Buckets) = 0 => fRes'.opts.Buckets = << >>
        /\ fArg' = fArg
        /\ sizeByteBuckets' = sizeByteBuckets
        /\ timeMillisecondBuckets' = timeMillisecondBuckets
    ]_vars

C5_Witness ==
  /\ fPc = "returned"
  /\ fArg.Type = "histogram_vec"
  /\ fArg.Buckets = sizeByteBuckets
  /\ fRes.opts.Buckets = SizeByteBucketsLit

(* C4: given a descriptor whose Type is neither "counter_vec" nor           *)
(* "histogram_vec", newMetric does not return normally with a nil           *)
(* collector.                                                               *)
C4_UnknownKindFailsLoudly ==
  (fPc = "returned" /\ fArg.Type \notin {"counter_vec", "histogram_vec"}) =>
    fRes # NilCollector

====
